---------------------------- MODULE Spec2Model ----------------------------
(***************************************************************************)
(* A model of the device agent (package cybergrid): the settings store     *)
(* (config/__init__.py), the MQTT connection manager (mqtt/client.py) and  *)
(* the orchestrator (main.py).                                             *)
(*                                                                         *)
(* Every asyncio task is a process whose position is a pc variable.  One   *)
(* action is the code a task runs between two suspension points: asyncio   *)
(* runs it without interleaving.  The awaits on the event loop             *)
(* (asyncio.sleep) and on the broker session (Client.__aenter__,           *)
(* Client.publish, Client.__aexit__) are the suspension points; each       *)
(* completes in a later step, at any time.                                 *)
(***************************************************************************)
EXTENDS Integers, Sequences, FiniteSets, TLC

\* ------------------------------------------------------------ bounds ----
\* Client objects (sessions) that exist at once; a dead one nobody refers to
\* is collected and its slot reused.
MaxSess == 2
\* reconnect() tasks in flight at once.
MaxRecon == 2
\* Modifications of config.yaml that the watch loop sees: in the whole agent,
\* in the settings store alone, and in the manager with its reconnect() tasks.
MaxEdits == 1
MaxStoreEdits == 2
MaxRaceEdits == 2
\* Failed attempts in one run of the retry loop.
MaxRetry == 6
\* Signals after the first, and calls of shutdown after the first.
MaxSignals == 1
MaxShutdownCalls == 1
\* Unclean session drops (broker outages).
MaxDrops == 1
\* Calls of start on one manager.
MaxCalls == 2
\* Listeners registered with on_change.
MaxListeners == 2

\* --------------------------------------------------- program constants --
BaseBackoff == 5
MaxBackoff == 60
DefaultPort == 1883
DefaultPoll == 5
DefaultHeartbeat == 30

\* The values a settings document may give: the defaults and one other each.
Hosts == {"localhost", "broker2"}
Ports == {DefaultPort, DefaultPort + 1}
Polls == {DefaultPoll, 2 * DefaultPoll}
Heartbeats == {DefaultHeartbeat, 2 * DefaultHeartbeat}

\* A key a section does not give.
NoHost == "-"
NoInt == 0

Min(a, b) == IF a < b THEN a ELSE b

\* ------------------------------------------------------ settings store --
\* MqttConfig() and AppConfig(): the dataclass defaults.
MqttConfig == [host |-> "localhost", port |-> DefaultPort]
AppConfig == [poll_interval |-> DefaultPoll, heartbeat_interval |-> DefaultHeartbeat]

\* What yaml.safe_load gives for a section of config.yaml: the key is absent,
\* its value is not a mapping (a scalar or a list), or it is a mapping of
\* some of the section's keys.
MqttSection(kind, host, port) == [kind |-> kind, host |-> host, port |-> port]
AppSection(kind, poll, hb) == [kind |-> kind, poll_interval |-> poll, heartbeat_interval |-> hb]
AbsentMqtt == MqttSection("absent", NoHost, NoInt)
AbsentApp == AppSection("absent", NoInt, NoInt)
NotMapMqtt == MqttSection("notmap", NoHost, NoInt)
NotMapApp == AppSection("notmap", NoInt, NoInt)

\* A document: one yaml.safe_load cannot parse (yaml.YAMLError), one whose
\* bytes are not UTF-8 (UnicodeDecodeError), one that is a number at its top
\* level, or a mapping of two sections.
Document(kind, m, a) == [kind |-> kind, mqtt |-> m, app |-> a]
Unparsable == Document("unparsable", AbsentMqtt, AbsentApp)
Undecodable == Document("undecodable", AbsentMqtt, AbsentApp)
ScalarDoc == Document("scalar", AbsentMqtt, AbsentApp)
EmptyDoc == Document("map", AbsentMqtt, AbsentApp)

\* A document the spec calls malformed.
Malformed(doc) ==
    \/ doc.kind \in {"unparsable", "undecodable", "scalar"}
    \/ doc.mqtt.kind = "notmap"
    \/ doc.app.kind = "notmap"

\* _merge_dataclass on the mqtt section: every key given whose value differs is
\* set and reported.
MergeMqtt(inst, data) ==
    LET hostCh == data.host # NoHost /\ data.host # inst.host
        portCh == data.port # NoInt /\ data.port # inst.port
    IN  [inst |-> [host |-> IF hostCh THEN data.host ELSE inst.host,
                   port |-> IF portCh THEN data.port ELSE inst.port],
         changed |-> (IF hostCh THEN {"host"} ELSE {})
                     \cup (IF portCh THEN {"port"} ELSE {})]

\* _merge_dataclass on the app section.
MergeApp(inst, data) ==
    LET pollCh == data.poll_interval # NoInt /\ data.poll_interval # inst.poll_interval
        hbCh == data.heartbeat_interval # NoInt
                /\ data.heartbeat_interval # inst.heartbeat_interval
    IN  [inst |-> [poll_interval |-> IF pollCh THEN data.poll_interval
                                     ELSE inst.poll_interval,
                   heartbeat_interval |-> IF hbCh THEN data.heartbeat_interval
                                          ELSE inst.heartbeat_interval],
         changed |-> (IF pollCh THEN {"poll_interval"} ELSE {})
                     \cup (IF hbCh THEN {"heartbeat_interval"} ELSE {})]

\* ConfigManager._reload_config: the settings after the call, the Change Record
\* it returns and whether it raised instead of returning.  yaml.YAMLError is
\* caught (line 139).  Not caught are the UnicodeDecodeError of a file that is
\* not UTF-8, the TypeError of `"mqtt" in data` on a number, and the
\* AttributeError of .items() on a section that is no mapping, which leaves an
\* earlier section merged.
ReloadConfig(m, a, doc) ==
    IF doc.kind = "unparsable"
    THEN [mqtt |-> m, app |-> a, changes |-> {}, raised |-> FALSE]
    ELSE IF doc.kind \in {"undecodable", "scalar"}
    THEN [mqtt |-> m, app |-> a, changes |-> {}, raised |-> TRUE]
    ELSE IF doc.mqtt.kind = "notmap"
    THEN [mqtt |-> m, app |-> a, changes |-> {}, raised |-> TRUE]
    ELSE LET mm == IF doc.mqtt.kind = "map" THEN MergeMqtt(m, doc.mqtt)
                   ELSE [inst |-> m, changed |-> {}]
         IN  IF doc.app.kind = "notmap"
             THEN [mqtt |-> mm.inst, app |-> a, changes |-> {}, raised |-> TRUE]
             ELSE LET aa == IF doc.app.kind = "map" THEN MergeApp(a, doc.app)
                            ELSE [inst |-> a, changed |-> {}]
                  IN  [mqtt |-> mm.inst, app |-> aa.inst,
                       changes |-> mm.changed \cup aa.changed, raised |-> FALSE]


\* The documents the operator may write to config.yaml.
MqttSections ==
    {AbsentMqtt, NotMapMqtt}
    \cup {MqttSection("map", h, p) : h \in Hosts \cup {NoHost}, p \in Ports \cup {NoInt}}
AppSections ==
    {AbsentApp, NotMapApp}
    \cup {AppSection("map", q, b) : q \in Polls \cup {NoInt}, b \in Heartbeats \cup {NoInt}}
Docs ==
    {Unparsable, Undecodable, ScalarDoc}
    \cup {Document("map", m, a) : m \in MqttSections, a \in AppSections}

\* The documents that only give the broker's address, or one app key.
ConnDocs ==
    {Document("map", MqttSection("map", NoHost, p), AbsentApp) : p \in Ports}
    \cup {Document("map", MqttSection("map", "broker2", NoInt), AbsentApp),
          Document("map", AbsentMqtt, AppSection("map", 2 * DefaultPoll, NoInt))}

\* -------------------------------------------------------------- state ----
Sessions == 1..MaxSess
Recons == 1..MaxRecon
Producers == {"heartbeat", "measurement"}
NoClient == 0

VARIABLES
    \* ConfigManager: self.mqtt, self.app; the watch loop's last_mtime (the
    \* modifications of config.yaml it has seen) and position; what the last
    \* _reload_config was given and did; self._watchers and the listeners the
    \* last reload invoked, in the order of the calls.
    mqtt, app, last_mtime, wPc, reload_result, watchers, notified,
    \* MQTTClientWrapper: self._client (a session or NoClient), self._connected,
    \* self._reconnect_requested, self._running.
    client, connected, reconnect_requested, running,
    \* The Client objects: the state of each one's broker session (st), the
    \* address it was built with, whether it carries the last-will, the last
    \* status message published for it (by the manager or, as its will, by the
    \* broker), whether an offline status was handed to it, and whether the
    \* address was changed by a reload while the manager was connected on it.
    sess,
    \* The supervising task (start): its position and the locals of
    \* _connect_with_retry.
    supPc, retry_count, backoff,
    \* The reconnect() tasks: position and the session each one awaits.
    rPc, rSess,
    \* The heartbeat and measurement tasks: position and the session awaited.
    pPc, pSess,
    \* DeviceAgent: self._running, self._shutdown_event, the position of
    \* run()/shutdown(), the session disconnect() awaits.
    agent_running, shutdown_event, shPc, shSess,
    \* History: the drops so far, where the supervising task stood when it was
    \* cancelled, the failed calls of _connect since the last one that returned.
    drops, cancelled_at, fails,
    \* MQTTClientWrapper.start called more than once: for each call its
    \* position, the locals of its _connect_with_retry and the Client it
    \* awaits.
    calls,
    \* For each reconnect task, the state the manager was in when the task
    \* called reconnect.
    rAt,
    \* MQTTClientWrapper.disconnect called once more after the call of
    \* shutdown has returned: the position of that call and the Client it
    \* awaits.
    dPc, dSess,
    \* How often each stage of shutdown has run (the watch loop stopped, the
    \* tasks cancelled, the manager disconnected), and the signals and the
    \* calls of shutdown that came after the first.
    ran, signals, shCalls

storeVars == <<mqtt, app, last_mtime, wPc, reload_result, watchers, notified>>
mgrVars == <<client, connected, reconnect_requested, running, sess>>
supVars == <<supPc, retry_count, backoff>>
recVars == <<rPc, rSess>>
prodVars == <<pPc, pSess>>
agentVars == <<agent_running, shutdown_event, shPc, shSess>>
histVars == <<drops, cancelled_at, fails>>
stopVars == <<ran, signals, shCalls>>
callVars == <<calls, rAt, dPc, dSess, stopVars>>
vars == <<storeVars, mgrVars, supVars, recVars, prodVars, agentVars, histVars, callVars>>

\* No last-will: what a Client built without one carries.
NoWill == [topic |-> "-", payload |-> "none", qos |-> 0, retain |-> FALSE]

\* A last-will that the broker would not retain.
WillNotRetained == [topic |-> "status", payload |-> "offline", qos |-> 1, retain |-> FALSE]

\* _connect, lines 55-60: the last-will given to every Client: the offline
\* status on the status topic, retained, at QoS 1.
LastWill == [topic |-> "status", payload |-> "offline", qos |-> 1, retain |-> TRUE]

\* A Client object that was never built, or was collected.
Unused ==
    [st |-> "unused", host |-> NoHost, port |-> NoInt, will |-> NoWill,
     status |-> "none", offline_tried |-> FALSE, outdated |-> FALSE]

\* The calls of start, and a call not made yet.
Calls == 1..MaxCalls
NotCalled == [pc |-> "init", retry_count |-> 0, backoff |-> BaseBackoff, sess |-> NoClient]

\* The listeners on_change may be given: the orchestrator's own
\* (_on_config_changed), one that only returns, one that raises.
Kinds == {"agent", "plain", "raises"}

\* The state with the watch loop at w and the listeners ls registered.
InitWith(w, ls) ==
    /\ mqtt = MqttConfig
    /\ app = AppConfig
    /\ last_mtime = 0
    /\ wPc = w
    /\ watchers = ls
    /\ notified = <<>>
    /\ reload_result = [malformed |-> FALSE, changes |-> {}, raised |-> FALSE]
    /\ client = NoClient
    /\ connected = FALSE
    /\ reconnect_requested = FALSE
    /\ running = FALSE
    /\ sess = [s \in Sessions |-> Unused]
    /\ supPc = "init"
    /\ retry_count = 0
    /\ backoff = BaseBackoff
    /\ rPc = [r \in Recons |-> "idle"]
    /\ rSess = [r \in Recons |-> NoClient]
    /\ pPc = [p \in Producers |-> "sleep"]
    /\ pSess = [p \in Producers |-> NoClient]
    /\ agent_running = TRUE
    /\ shutdown_event = FALSE
    /\ shPc = "wait"
    /\ shSess = NoClient
    /\ drops = 0
    /\ cancelled_at = "none"
    /\ fails = 0
    /\ calls = [l \in Calls |-> NotCalled]
    /\ rAt = [r \in Recons |-> "-"]
    /\ dPc = "none"
    /\ dSess = NoClient
    /\ ran = [stop |-> 0, cancel |-> 0, disconnect |-> 0]
    /\ signals = 0
    /\ shCalls = 0

\* The agent after run has created its tasks (main.py, lines 40-52), none of
\* which has run yet, with config.yaml absent or equal to the defaults when
\* it started.
Init == InitWith("created", <<"agent">>)

\* A ConfigManager as constructed: no listener, watch_config not called.
StoreInit == InitWith("init", <<>>)

\* ------------------------------------------------- connection manager ----
\* A publish that looks only at the Client.
ForwardsWithClient(conn, cl) == cl # NoClient

\* MQTTClientWrapper.publish, lines 111-112: whether the call goes on to
\* Client.publish.
Forwards(conn, cl) == ~(~conn \/ cl = NoClient)

\* A Client.publish that hands nothing to the session.
DeliverNothing(ss, s, kind) == ss

\* Client.publish(topic, payload) on session s, as the broker sees it: a
\* session that is not live takes nothing.  kind is "online" or "offline"
\* (publish_status, the status topic) or "measurement".
Deliver(ss, s, kind) ==
    LET tried == [ss EXCEPT ![s].offline_tried = @ \/ kind = "offline"]
    IN  IF ss[s].st # "live" \/ kind = "measurement" THEN tried
        ELSE [tried EXCEPT ![s].status = kind]

\* MQTTClientWrapper.publish (and publish_status, which only builds the topic
\* and the payload) up to its await: the sessions after the call and whether
\* the payload was handed to the session.
Publish(conn, cl, ss, kind) ==
    IF Forwards(conn, cl)
    THEN [sess |-> Deliver(ss, cl, kind), fwd |-> TRUE]
    ELSE [sess |-> ss, fwd |-> FALSE]

\* Client.__aexit__ on session s has completed: a live session is released
\* (a clean DISCONNECT: the broker discards the will); on any other the call
\* did nothing or raised, which reconnect() and disconnect() swallow.
Released(ss, s) ==
    IF ss[s].st = "live" THEN [ss EXCEPT ![s].st = "released"] ELSE ss

\* A task is suspended in a call on session s.
Referenced(s) ==
    \/ \E r \in Recons : rPc[r] \in {"publish", "aexit"} /\ rSess[r] = s
    \/ \E p \in Producers : pPc[p] = "publish" /\ pSess[p] = s
    \/ shPc = "aexit" /\ shSess = s
    \/ supPc \in {"aenter", "online"} /\ client = s
    \/ dPc = "aexit" /\ dSess = s
    \/ \E l \in Calls : calls[l].pc \in {"aenter", "online"} /\ calls[l].sess = s

\* A Client object nothing can reach any more but self._client.
Dead(s) == sess[s].st \in {"unused", "failed", "released", "dropped"}
FreeSessions == {s \in Sessions : Dead(s) /\ ~Referenced(s)}

\* _connect, lines 52-69, up to the await of __aenter__: a new Client with the
\* settings as they are now and the last-will, assigned to self._client.  The
\* Client it replaces is not released.
Connect ==
    /\ FreeSessions # {}
    /\ LET s == CHOOSE x \in FreeSessions : \A y \in FreeSessions : x <= y
       IN  /\ client' = s
           /\ sess' = [x \in Sessions |->
                        IF x = s
                        THEN [Unused EXCEPT !.st = "connecting", !.host = mqtt.host,
                                            !.port = mqtt.port, !.will = LastWill]
                        ELSE IF x \in FreeSessions THEN Unused ELSE sess[x]]

\* _connect_with_retry from the test of its while loop (line 39), with the
\* locals rc and bo; run is self._running.
RetryLoop(rc, bo, run) ==
    IF ~connected /\ ~reconnect_requested /\ run
    THEN /\ Connect
         /\ supPc' = "aenter"
         /\ retry_count' = rc
         /\ backoff' = bo
         /\ UNCHANGED reconnect_requested
    ELSE \* return False; start clears the flag and sleeps (lines 31-32)
         /\ reconnect_requested' = FALSE
         /\ supPc' = "tick"
         /\ retry_count' = 0
         /\ backoff' = BaseBackoff
         /\ UNCHANGED <<client, sess>>

\* One turn of start's loop from its test (line 28).
LoopTurn(run) ==
    IF ~run
    THEN /\ supPc' = "exited"
         /\ UNCHANGED <<client, sess, reconnect_requested, retry_count, backoff>>
    ELSE IF ~connected
    THEN RetryLoop(0, BaseBackoff, run)
    ELSE /\ reconnect_requested' = FALSE
         /\ supPc' = "tick"
         /\ UNCHANGED <<client, sess, retry_count, backoff>>

\* start, line 27 on: the task begins.
Start ==
    /\ supPc = "init"
    /\ running' = TRUE
    /\ LoopTurn(TRUE)
    /\ UNCHANGED <<connected, storeVars, recVars, prodVars, agentVars, histVars>>
    /\ UNCHANGED callVars

\* start, line 32: the sleep of one second is over.
Tick ==
    /\ supPc = "tick"
    /\ LoopTurn(running)
    /\ UNCHANGED <<connected, running, storeVars, recVars, prodVars, agentVars, histVars>>
    /\ UNCHANGED callVars

\* The number of consecutive connection failures, counted to MaxRetry + 1.
Failed(n) == Min(n + 1, MaxRetry + 1)

\* _connect, lines 69-72: __aenter__ returned; the flag is set and the online
\* status published.
AenterOk ==
    /\ supPc = "aenter"
    /\ connected' = TRUE
    /\ LET est == [sess EXCEPT ![client].st = "live"]
           res == Publish(TRUE, client, est, "online")
       IN  sess' = res.sess
    /\ supPc' = "online"
    /\ UNCHANGED <<client, reconnect_requested, running, retry_count, backoff,
                   drops, cancelled_at, fails, storeVars, recVars, prodVars, agentVars>>
    /\ UNCHANGED callVars

\* _connect_with_retry, lines 43-46: __aenter__ raised OSError or MqttError.
AenterFail ==
    /\ supPc = "aenter"
    /\ retry_count < MaxRetry
    /\ sess' = [sess EXCEPT ![client].st = "failed"]
    /\ retry_count' = retry_count + 1
    /\ supPc' = "backoff"
    /\ fails' = Failed(fails)
    /\ UNCHANGED <<client, connected, reconnect_requested, running, backoff,
                   drops, cancelled_at, storeVars, recVars, prodVars, agentVars>>
    /\ UNCHANGED callVars

\* The publish of the online status returned: _connect returns,
\* _connect_with_retry returns True, start clears the flag and sleeps.
OnlineOk ==
    /\ supPc = "online"
    /\ sess[client].st = "live"
    /\ reconnect_requested' = FALSE
    /\ supPc' = "tick"
    /\ retry_count' = 0
    /\ backoff' = BaseBackoff
    /\ fails' = 0
    /\ UNCHANGED <<client, connected, running, sess, drops, cancelled_at,
                   storeVars, recVars, prodVars, agentVars>>
    /\ UNCHANGED callVars

\* The publish of the online status raised MqttError (the session is gone):
\* the handler of lines 43-46 takes it for a failed connection.
OnlineFail ==
    /\ supPc = "online"
    /\ sess[client].st # "live"
    /\ retry_count' = retry_count + 1
    /\ supPc' = "backoff"
    /\ fails' = Failed(fails)
    /\ UNCHANGED <<client, connected, reconnect_requested, running, sess, backoff,
                   drops, cancelled_at, storeVars, recVars, prodVars, agentVars>>
    /\ UNCHANGED callVars

\* The delay after a failure, line 47: doubled, capped.
NextBackoff(b) == Min(b * 2, MaxBackoff)

\* _connect_with_retry, lines 46-47 and back to the test: the backoff sleep is
\* over.
BackoffOver ==
    /\ supPc = "backoff"
    /\ RetryLoop(retry_count, NextBackoff(backoff), running)
    /\ UNCHANGED <<connected, running, storeVars, recVars, prodVars, agentVars, histVars>>
    /\ UNCHANGED callVars

\* The state of the manager: Connected when _connected is set, Connecting
\* while the Client of self._client awaits __aenter__, else Disconnected.
ManagerState ==
    IF connected THEN "Connected"
    ELSE IF client # NoClient /\ sess[client].st = "connecting" THEN "Connecting"
    ELSE "Disconnected"

\* reconnect, lines 91-93: the task begins.  With no Client it only sets the
\* flags (lines 101-102); else it publishes the offline status, which publish
\* drops unless connected, and goes on to __aexit__.
ReconnectStart(r) ==
    /\ rPc[r] = "ready"
    /\ IF client = NoClient
       THEN /\ connected' = FALSE
            /\ reconnect_requested' = TRUE
            /\ rPc' = [rPc EXCEPT ![r] = "idle"]
            /\ UNCHANGED <<sess, rSess>>
       ELSE LET res == Publish(connected, client, sess, "offline")
            IN  /\ sess' = res.sess
                /\ rPc' = [rPc EXCEPT ![r] = IF res.fwd THEN "publish" ELSE "aexit"]
                /\ rSess' = [rSess EXCEPT ![r] = client]
                /\ UNCHANGED <<connected, reconnect_requested>>
    /\ UNCHANGED <<client, running, drops, cancelled_at, fails, storeVars, supVars,
                   prodVars, agentVars>>
    /\ rAt' = [rAt EXCEPT ![r] = IF client = NoClient THEN "-" ELSE ManagerState]
    /\ UNCHANGED <<calls, dPc, dSess, stopVars>>

\* reconnect, lines 94-97: the publish returned or raised (swallowed);
\* __aexit__ is called on what self._client is now.
ReconnectPublished(r) ==
    /\ rPc[r] = "publish"
    /\ rPc' = [rPc EXCEPT ![r] = "aexit"]
    /\ rSess' = [rSess EXCEPT ![r] = client]
    /\ UNCHANGED <<mgrVars, storeVars, supVars, prodVars, agentVars, histVars>>
    /\ UNCHANGED callVars

\* reconnect, lines 98-102: __aexit__ returned or raised (swallowed); the
\* flags are set.
ReconnectReleased(r) ==
    /\ rPc[r] = "aexit"
    /\ sess' = Released(sess, rSess[r])
    /\ connected' = FALSE
    /\ reconnect_requested' = TRUE
    /\ rPc' = [rPc EXCEPT ![r] = "idle"]
    /\ rSess' = [rSess EXCEPT ![r] = NoClient]
    /\ UNCHANGED <<client, running, storeVars, supVars, prodVars, agentVars, histVars>>
    /\ rAt' = [rAt EXCEPT ![r] = "-"]
    /\ UNCHANGED <<calls, dPc, dSess, stopVars>>

\* -------------------------------------------------------- orchestrator ----
\* What a producer publishes: publish_status("online") or a measurement.
Payload(p) == IF p = "heartbeat" THEN "online" ELSE "measurement"

\* _heartbeat_task, lines 64-67, and _measurement_task, lines 74-88: the sleep
\* is over (or the task begins); it publishes if the manager says connected.
ProducerTick(p) ==
    /\ pPc[p] = "sleep"
    /\ IF ~agent_running
       THEN /\ pPc' = [pPc EXCEPT ![p] = "exited"]
            /\ UNCHANGED <<sess, pSess>>
       ELSE IF connected
       THEN LET res == Publish(connected, client, sess, Payload(p))
            IN  /\ sess' = res.sess
                /\ pPc' = [pPc EXCEPT ![p] = IF res.fwd THEN "publish" ELSE "sleep"]
                /\ pSess' = [pSess EXCEPT ![p] = IF res.fwd THEN client ELSE NoClient]
       ELSE UNCHANGED <<sess, pPc, pSess>>
    /\ UNCHANGED <<client, connected, reconnect_requested, running, drops,
                   cancelled_at, fails, storeVars, supVars, recVars, agentVars>>
    /\ UNCHANGED callVars

\* The producer's publish returned: it sleeps.
ProducerPublished(p) ==
    /\ pPc[p] = "publish"
    /\ sess[pSess[p]].st = "live"
    /\ pPc' = [pPc EXCEPT ![p] = "sleep"]
    /\ pSess' = [pSess EXCEPT ![p] = NoClient]
    /\ UNCHANGED <<mgrVars, storeVars, supVars, recVars, agentVars, histVars>>
    /\ UNCHANGED callVars

\* The producer's publish raised MqttError (the session is gone): publish has
\* no handler, nor has the task, which ends with the exception.
ProducerRaised(p) ==
    /\ pPc[p] = "publish"
    /\ sess[pSess[p]].st # "live"
    /\ pPc' = [pPc EXCEPT ![p] = "crashed"]
    /\ pSess' = [pSess EXCEPT ![p] = NoClient]
    /\ UNCHANGED <<mgrVars, storeVars, supVars, recVars, agentVars, histVars>>
    /\ UNCHANGED callVars

\* A listener that asks for a reconnect at any change.
WantsReconnectAlways(changes) == changes # {}

\* DeviceAgent._on_config_changed: whether the listener starts a reconnect
\* task for this Change Record.
WantsReconnect(changes) == changes # {} /\ ({"host", "port"} \cap changes) # {}

\* ConfigManager._notify_changes: the listeners called with a Change Record,
\* in the order of the calls.  An empty record goes to nobody; a listener that
\* raises ends the loop (the watch loop swallows the exception).
NotifyChanges(ls, changes) ==
    LET bad == {i \in DOMAIN ls : ls[i] = "raises"}
        last == IF bad = {} THEN Len(ls)
                ELSE CHOOSE i \in bad : \A j \in bad : i <= j
    IN  IF changes = {} THEN <<>> ELSE [i \in 1..last |-> i]

\* ConfigManager.on_change: listener k is appended to self._watchers.  The
\* orchestrator registers its own once (main.py, line 43).
OnChange(k) ==
    /\ Len(watchers) < MaxListeners
    /\ k = "agent" => \A i \in DOMAIN watchers : watchers[i] # "agent"
    /\ watchers' = Append(watchers, k)
    /\ UNCHANGED <<mqtt, app, last_mtime, wPc, reload_result, notified, mgrVars, supVars,
                   recVars, prodVars, agentVars, histVars, callVars>>

\* ConfigManager.watch_config, lines 93-95: config.yaml, if there is one, is
\* loaded and the Change Record dropped; then the task of the watch loop is
\* created, which has not run yet.  An exception of the load leaves
\* watch_config, and run, before that.
WatchConfig(D) ==
    /\ wPc = "init"
    /\ \E doc \in D :
         LET r == ReloadConfig(mqtt, app, doc)
         IN  /\ mqtt' = r.mqtt
             /\ app' = r.app
             /\ reload_result' = [malformed |-> Malformed(doc), changes |-> r.changes,
                                  raised |-> r.raised]
             /\ wPc' = IF r.raised THEN "failed" ELSE "created"
    /\ notified' = <<>>
    /\ UNCHANGED <<last_mtime, watchers, mgrVars, supVars, recVars, prodVars, agentVars,
                   histVars>>
    /\ UNCHANGED callVars

\* ConfigManager._watch_loop, lines 99-113, the first step of the task:
\* last_mtime is what the file's mtime is now, so that a modification made
\* since watch_config read the file (one of at most n) is taken as seen and is
\* not reloaded; the first turn of the loop finds nothing newer and sleeps.
WatchLoopStart(n) ==
    /\ wPc = "created"
    /\ wPc' = "sleep"
    /\ \/ UNCHANGED last_mtime
       \/ /\ last_mtime < n
          /\ last_mtime' = last_mtime + 1
    /\ UNCHANGED <<mqtt, app, reload_result, watchers, notified, mgrVars, supVars,
                   recVars, prodVars, agentVars, histVars, callVars>>

\* ConfigManager._watch_loop, lines 104-113, with _notify_changes and the
\* listener: config.yaml is newer and holds a document of D; it is reloaded
\* (an exception of the reload is swallowed, line 111) and a non-empty Change
\* Record goes to the listener, which starts a reconnect task if the address
\* changed.
WatchTick(D, n) ==
    /\ wPc = "sleep"
    /\ last_mtime < n
    /\ last_mtime' = last_mtime + 1
    /\ \E doc \in D :
         LET r == ReloadConfig(mqtt, app, doc)
         IN  /\ mqtt' = r.mqtt
             /\ app' = r.app
             /\ reload_result' = [malformed |-> Malformed(doc), changes |-> r.changes,
                                  raised |-> r.raised]
             /\ notified' = IF r.raised THEN <<>> ELSE NotifyChanges(watchers, r.changes)
             /\ IF ~r.raised /\ WantsReconnect(r.changes)
                   /\ \E i \in DOMAIN notified' : watchers[notified'[i]] = "agent"
                THEN /\ \E t \in Recons : rPc[t] = "idle"
                     /\ LET t == CHOOSE x \in Recons :
                                    rPc[x] = "idle" /\ \A y \in Recons : rPc[y] = "idle" => x <= y
                        IN  rPc' = [rPc EXCEPT ![t] = "ready"]
                ELSE UNCHANGED rPc
             /\ sess' = IF rPc' # rPc /\ connected /\ client # NoClient
                        THEN [sess EXCEPT ![client].outdated = TRUE]
                        ELSE sess
    /\ UNCHANGED <<wPc, watchers, rSess, client, connected, reconnect_requested,
                   running, supVars, prodVars, agentVars, histVars>>
    /\ UNCHANGED callVars

\* The broker or the network drops a live session: the broker publishes the
\* session's will.
Drop ==
    /\ drops < MaxDrops
    /\ \E s \in Sessions :
        /\ sess[s].st = "live"
        /\ sess' = [sess EXCEPT ![s].st = "dropped",
                                ![s].status = IF sess[s].will # NoWill
                                               THEN sess[s].will.payload ELSE @]
    /\ drops' = drops + 1
    /\ UNCHANGED <<client, connected, reconnect_requested, running, cancelled_at, fails, storeVars, supVars, recVars, prodVars, agentVars>>
    /\ UNCHANGED callVars

\* main, lines 133-134: SIGINT or SIGTERM sets the shutdown event.
Signal ==
    /\ ~shutdown_event
    /\ shutdown_event' = TRUE
    /\ UNCHANGED <<agent_running, shPc, shSess, storeVars, mgrVars, supVars, recVars,
                   prodVars, histVars>>
    /\ UNCHANGED callVars

\* A shutdown that runs whatever _running is.
ShutdownRunsAlways(ar) == TRUE

\* shutdown, lines 106-107: the sequence runs only while _running is set.
ShutdownRuns(ar) == ar

\* run, lines 55-60, and shutdown, lines 106-114: run wakes on the event and
\* calls shutdown, which clears _running and stops the watch loop.
ShutdownBegin ==
    /\ shPc = "wait"
    /\ shutdown_event
    /\ ShutdownRuns(agent_running)
    /\ agent_running' = FALSE
    /\ wPc' = "cancelled"
    /\ shPc' = "stopping"
    /\ UNCHANGED <<shutdown_event, shSess, mqtt, app, last_mtime, reload_result,
                   watchers, notified, mgrVars, supVars, recVars, prodVars, histVars>>
    /\ ran' = [ran EXCEPT !.stop = Min(@ + 1, 2)]
    /\ UNCHANGED <<calls, rAt, dPc, dSess, signals, shCalls>>

\* A cancellation that leaves the task where it is.
NotCancelled(pc) == pc

\* A task that task.cancel() ends: one that has not ended by itself.
Cancelled(pc) == IF pc \in {"exited", "crashed"} THEN pc ELSE "cancelled"

\* shutdown, lines 117-119: the three tasks are cancelled and awaited.  Each
\* takes CancelledError at its await, which nothing catches; a connection
\* attempt in flight is abandoned.
ShutdownCancel ==
    /\ shPc = "stopping"
    /\ cancelled_at' = supPc
    /\ supPc' = Cancelled(supPc)
    /\ retry_count' = 0
    /\ backoff' = BaseBackoff
    /\ pPc' = [p \in Producers |-> Cancelled(pPc[p])]
    /\ pSess' = [p \in Producers |-> NoClient]
    /\ sess' = IF supPc = "aenter" THEN [sess EXCEPT ![client].st = "failed"] ELSE sess
    /\ shPc' = "gather"
    /\ UNCHANGED <<client, connected, reconnect_requested, running, agent_running,
                   shutdown_event, shSess, drops, fails, storeVars, recVars>>
    /\ ran' = [ran EXCEPT !.cancel = Min(@ + 1, 2)]
    /\ UNCHANGED <<calls, rAt, dPc, dSess, signals, shCalls>>

\* shutdown, lines 120-124, and disconnect, lines 76-85: the flags are
\* cleared, then the offline status is published (publish drops it: the
\* manager is no longer connected) and __aexit__ called.  With no Client
\* shutdown is complete at once.
ShutdownDisconnect ==
    /\ shPc = "gather"
    /\ running' = FALSE
    /\ connected' = FALSE
    /\ IF client = NoClient
       THEN /\ shPc' = "done"
            /\ UNCHANGED <<sess, shSess>>
       ELSE LET res == Publish(FALSE, client, sess, "offline")
            IN  /\ sess' = res.sess
                /\ shPc' = "aexit"
                /\ shSess' = client
    /\ UNCHANGED recVars
    /\ UNCHANGED <<client, reconnect_requested, agent_running, shutdown_event, drops,
                   cancelled_at, fails, storeVars, supVars, prodVars>>
    /\ ran' = [ran EXCEPT !.disconnect = Min(@ + 1, 2)]
    /\ UNCHANGED <<calls, rAt, dPc, dSess, signals, shCalls>>

\* disconnect, lines 85-87, and shutdown, line 126: __aexit__ returned or
\* raised (swallowed); shutdown is complete and run and main return.  The
\* reconnect() tasks that are left are where they were: those that are ready
\* still run before the event loop is closed.
ShutdownReleased ==
    /\ shPc = "aexit"
    /\ sess' = Released(sess, shSess)
    /\ shPc' = "done"
    /\ shSess' = NoClient
    /\ UNCHANGED <<client, connected, reconnect_requested, running, agent_running,
                   shutdown_event, storeVars, supVars, recVars, prodVars, histVars>>
    /\ UNCHANGED callVars

\* asyncio.run, line 149, after main has returned: the tasks that are left,
\* which are the reconnect() tasks, are cancelled and the event loop is closed.
LoopClosed ==
    /\ shPc = "done"
    /\ dPc # "aexit"
    /\ shPc' = "closed"
    /\ rPc' = [r \in Recons |-> "idle"]
    /\ rSess' = [r \in Recons |-> NoClient]
    /\ rAt' = [r \in Recons |-> "-"]
    /\ UNCHANGED <<client, connected, reconnect_requested, running, sess, agent_running,
                   shutdown_event, shSess, storeVars, supVars, prodVars, histVars,
                   calls, dPc, dSess, stopVars>>

\* ------------------------------------------------------ specifications ----
Supervisor == Start \/ Tick \/ AenterOk \/ AenterFail \/ OnlineOk \/ OnlineFail \/ BackoffOver
Reconnects ==
    \E r \in Recons : ReconnectStart(r) \/ ReconnectPublished(r) \/ ReconnectReleased(r)
ProducerStep ==
    \E p \in Producers : ProducerTick(p) \/ ProducerPublished(p) \/ ProducerRaised(p)
Shutdown ==
    \/ ShutdownBegin \/ ShutdownCancel \/ ShutdownDisconnect \/ ShutdownReleased
    \/ LoopClosed

Next ==
    \/ Supervisor
    \/ Reconnects
    \/ ProducerStep
    \/ WatchLoopStart(MaxEdits)
    \/ WatchTick(ConnDocs, MaxEdits)
    \/ Drop
    \/ Signal
    \/ Shutdown

Spec == Init /\ [][Next]_vars

\* The settings store alone, given any document.
StoreNext ==
    \/ \E k \in Kinds : OnChange(k)
    \/ WatchConfig(Docs)
    \/ WatchLoopStart(MaxStoreEdits)
    \/ WatchTick(Docs, MaxStoreEdits)
StoreSpec == StoreInit /\ [][StoreNext]_vars

\* The connection manager and the reconnect() tasks that changes of
\* config.yaml start, with no producer, no outage and no signal.
RaceNext ==
    \/ Supervisor \/ Reconnects
    \/ WatchLoopStart(MaxRaceEdits) \/ WatchTick(ConnDocs, MaxRaceEdits)
RaceSpec == Init /\ [][RaceNext]_vars

\* The agent through broker outages, with no change of config.yaml and no
\* signal.  The event loop runs every task that is ready, and every call on
\* a session returns or raises in the end.
OutageNext == Supervisor \/ ProducerStep \/ WatchLoopStart(0) \/ Drop
OutageSpec == Init /\ [][OutageNext]_vars /\ WF_vars(Supervisor) /\ WF_vars(ProducerStep)

\* ------------------------------------------ start called more than once ----
\* start has no test of _running or of a loop that runs already (lines 25-32):
\* every call runs the loop of the supervising task on the same manager.  The
\* steps below are those of Supervisor for call l, with the locals of its
\* _connect_with_retry and the Client it awaits kept per call.
CallAwaits(l, s) == calls[l].pc \in {"aenter", "online"} /\ calls[l].sess = s
CallFree == {s \in Sessions : Dead(s) /\ \A l \in Calls : ~CallAwaits(l, s)}

\* _connect_with_retry from the test of its loop (line 39) in call l.
CallRetryLoop(l, rc, bo, run) ==
    IF ~connected /\ ~reconnect_requested /\ run
    THEN /\ CallFree # {}
         /\ LET s == CHOOSE x \in CallFree : \A y \in CallFree : x <= y
            IN  /\ client' = s
                /\ sess' = [sess EXCEPT ![s] =
                              [Unused EXCEPT !.st = "connecting", !.host = mqtt.host,
                                             !.port = mqtt.port, !.will = LastWill]]
                /\ calls' = [calls EXCEPT ![l] =
                               [pc |-> "aenter", retry_count |-> rc, backoff |-> bo,
                                sess |-> s]]
         /\ UNCHANGED reconnect_requested
    ELSE /\ reconnect_requested' = FALSE
         /\ calls' = [calls EXCEPT ![l] = [NotCalled EXCEPT !.pc = "tick"]]
         /\ UNCHANGED <<client, sess>>

\* One turn of the loop of start (line 28) in call l.
CallLoopTurn(l, run) ==
    IF ~run
    THEN /\ calls' = [calls EXCEPT ![l] = [NotCalled EXCEPT !.pc = "exited"]]
         /\ UNCHANGED <<client, sess, reconnect_requested>>
    ELSE IF ~connected
    THEN CallRetryLoop(l, 0, BaseBackoff, run)
    ELSE /\ reconnect_requested' = FALSE
         /\ calls' = [calls EXCEPT ![l] = [NotCalled EXCEPT !.pc = "tick"]]
         /\ UNCHANGED <<client, sess>>

\* start, lines 27-28: call l begins.
CallStart(l) ==
    /\ calls[l].pc = "init"
    /\ running' = TRUE
    /\ CallLoopTurn(l, TRUE)
    /\ UNCHANGED <<connected, storeVars, supPc, retry_count, backoff, recVars, prodVars,
                   agentVars, histVars, rAt, dPc, dSess, stopVars>>

\* start, line 32, in call l: the sleep of one second is over.
CallTick(l) ==
    /\ calls[l].pc = "tick"
    /\ CallLoopTurn(l, running)
    /\ UNCHANGED <<connected, running, storeVars, supPc, retry_count, backoff, recVars,
                   prodVars, agentVars, histVars, rAt, dPc, dSess, stopVars>>

\* _connect, lines 69-72, in call l: __aenter__ of the Client the call built
\* returned; the flag is set and the online status published on what
\* self._client is now.
CallAenterOk(l) ==
    /\ calls[l].pc = "aenter"
    /\ connected' = TRUE
    /\ LET est == [sess EXCEPT ![calls[l].sess].st = "live"]
           res == Publish(TRUE, client, est, "online")
       IN  sess' = res.sess
    /\ calls' = [calls EXCEPT ![l].pc = "online", ![l].sess = client]
    /\ UNCHANGED <<client, reconnect_requested, running, storeVars, supPc, retry_count,
                   backoff, recVars, prodVars, agentVars, histVars, rAt, dPc, dSess, stopVars>>

\* _connect_with_retry, lines 43-46, in call l: __aenter__ raised.
CallAenterFail(l) ==
    /\ calls[l].pc = "aenter"
    /\ calls[l].retry_count < MaxRetry
    /\ sess' = [sess EXCEPT ![calls[l].sess].st = "failed"]
    /\ calls' = [calls EXCEPT ![l].pc = "backoff", ![l].retry_count = @ + 1]
    /\ UNCHANGED <<client, connected, reconnect_requested, running, storeVars, supPc,
                   retry_count, backoff, recVars, prodVars, agentVars, histVars, rAt, dPc, dSess, stopVars>>

\* The publish of the online status returned in call l.
CallOnlineOk(l) ==
    /\ calls[l].pc = "online"
    /\ sess[calls[l].sess].st = "live"
    /\ reconnect_requested' = FALSE
    /\ calls' = [calls EXCEPT ![l] = [NotCalled EXCEPT !.pc = "tick"]]
    /\ UNCHANGED <<client, connected, running, sess, storeVars, supPc, retry_count,
                   backoff, recVars, prodVars, agentVars, histVars, rAt, dPc, dSess, stopVars>>

\* The publish of the online status raised MqttError in call l: the Client
\* it was made on is not connected.
CallOnlineFail(l) ==
    /\ calls[l].pc = "online"
    /\ sess[calls[l].sess].st # "live"
    /\ calls[l].retry_count < MaxRetry
    /\ calls' = [calls EXCEPT ![l].pc = "backoff", ![l].retry_count = @ + 1]
    /\ UNCHANGED <<client, connected, reconnect_requested, running, sess, storeVars,
                   supPc, retry_count, backoff, recVars, prodVars, agentVars, histVars, rAt, dPc, dSess, stopVars>>

\* _connect_with_retry, lines 46-47 and back to the test, in call l.
CallBackoffOver(l) ==
    /\ calls[l].pc = "backoff"
    /\ CallRetryLoop(l, calls[l].retry_count, NextBackoff(calls[l].backoff), running)
    /\ UNCHANGED <<connected, running, storeVars, supPc, retry_count, backoff, recVars,
                   prodVars, agentVars, histVars, rAt, dPc, dSess, stopVars>>

CallStep(l) ==
    \/ CallStart(l) \/ CallTick(l) \/ CallAenterOk(l) \/ CallAenterFail(l)
    \/ CallOnlineOk(l) \/ CallOnlineFail(l) \/ CallBackoffOver(l)

\* One manager on which start is called up to MaxCalls times, through broker
\* outages.
TwiceNext == (\E l \in Calls : CallStep(l)) \/ Drop
TwiceSpec == Init /\ [][TwiceNext]_vars

\* ------------------------------------------- disconnect called once more ----
\* disconnect, lines 76-83, called after the disconnect of shutdown has
\* returned: the flags are cleared again, and with a Client the offline
\* status is published, which publish drops, and __aexit__ awaited.
DisconnectAgain ==
    /\ shPc = "done"
    /\ dPc = "none"
    /\ running' = FALSE
    /\ connected' = FALSE
    /\ IF client = NoClient
       THEN /\ dPc' = "done"
            /\ UNCHANGED <<sess, dSess>>
       ELSE LET res == Publish(FALSE, client, sess, "offline")
            IN  /\ sess' = res.sess
                /\ dPc' = IF res.fwd THEN "publish" ELSE "aexit"
                /\ dSess' = client
    /\ UNCHANGED <<client, reconnect_requested, storeVars, supVars, recVars, prodVars,
                   agentVars, histVars, calls, rAt, stopVars>>

\* disconnect, lines 84-87, in that call: __aexit__ returned or raised
\* (swallowed).
DisconnectAgainReleased ==
    /\ dPc = "aexit"
    /\ sess' = Released(sess, dSess)
    /\ dPc' = "done"
    /\ dSess' = NoClient
    /\ UNCHANGED <<client, connected, reconnect_requested, running, storeVars, supVars,
                   recVars, prodVars, agentVars, histVars, calls, rAt, stopVars>>

\* main, lines 133-134: SIGINT or SIGTERM once more; the event is set already.
SignalAgain ==
    /\ shutdown_event
    /\ shPc # "closed"
    /\ signals < MaxSignals
    /\ signals' = signals + 1
    /\ shutdown_event' = TRUE
    /\ UNCHANGED <<agent_running, shPc, shSess, storeVars, mgrVars, supVars, recVars,
                   prodVars, histVars, calls, rAt, dPc, dSess, ran, shCalls>>

\* shutdown called once more, while the first call runs or after it (main,
\* lines 142-144): it returns at its test of _running (lines 106-107), and
\* would begin the sequence anew if it did not.
ShutdownAgain ==
    /\ shPc \notin {"wait", "closed"}
    /\ shCalls < MaxShutdownCalls
    /\ shCalls' = shCalls + 1
    /\ IF ShutdownRuns(agent_running)
       THEN /\ agent_running' = FALSE
            /\ shutdown_event' = TRUE
            /\ wPc' = "cancelled"
            /\ shPc' = "stopping"
            /\ ran' = [ran EXCEPT !.stop = Min(@ + 1, 2)]
       ELSE UNCHANGED <<agent_running, shutdown_event, wPc, shPc, ran>>
    /\ UNCHANGED <<shSess, mqtt, app, last_mtime, reload_result, watchers, notified,
                   mgrVars, supVars, recVars, prodVars, histVars, calls, rAt, dPc, dSess,
                   signals>>

\* The agent with signals and calls of shutdown after the first, and a second
\* disconnect on its manager after the shutdown.
AgainNext ==
    Next \/ SignalAgain \/ ShutdownAgain \/ DisconnectAgain \/ DisconnectAgainReleased
AgainSpec == Init /\ [][AgainNext]_vars

\* ------------------------------------------------------------- claims ----
\* A session the manager holds: its Client is connecting or connected.
Held(s) == sess[s].st \in {"connecting", "live"}

\* C1: the manager never holds more than one session: no two Client objects
\* are connecting or connected at once, so the session of before a reconnect
\* is released before the next one is being established.
AtMostOneSession == \A s, t \in Sessions : Held(s) /\ Held(t) => s = t

\* C2: when a reload changes the broker's address while the manager is
\* connected, the offline status is handed to the session of that moment before
\* the session is released (the claim's ordering clause; the manager then
\* leaves Connected and connects anew).
OfflineBeforeRelease ==
    \A s \in Sessions :
        sess[s].outdated /\ sess[s].st = "released" => sess[s].offline_tried

\* The delay the claim gives for the k-th failure: min(5 * 2^(k-1), 60).
Expected(k) == Min(BaseBackoff * 2 ^ (k - 1), MaxBackoff)

\* C3: the delay waited after the k-th consecutive connection failure, with
\* no successful connection in between, is Expected(k); fails counts the
\* failures since the last success, so a success brings the delay back to 5.
BackoffOfConsecutiveFailures == supPc = "backoff" => backoff = Expected(fails)

\* The manager is connected on a session that has dropped.
Outage == connected /\ client # NoClient /\ sess[client].st = "dropped"

\* C4: after the session of a connected manager drops, the manager leaves
\* Connected (and the supervising loop then connects anew).
ReconnectsAfterOutage == Outage ~> ~connected

\* C5: disconnect, called while the manager is connected on a live session,
\* hands the offline status to that session before it releases it.
OfflineOnShutdown ==
    [][shPc = "gather" /\ shPc' # "gather" /\ connected /\ client # NoClient
          /\ sess[client].st = "live"
       => sess'[client].offline_tried /\ sess'[client].status = "offline"]_vars

\* C6: a shutdown that finds the supervising loop in a backoff wait (or
\* anywhere else) ends it there: the task never resumes, so the rest of the
\* wait does not elapse; once shutdown is complete the manager is disconnected
\* and not running with no attempt in flight; and from the cancellation on no
\* Client is built.
ShutdownInterruptsBackoff ==
    /\ [](cancelled_at # "none" =>
            /\ supPc = "cancelled"
            /\ shPc \in {"done", "closed"} =>
                 ~connected /\ ~running /\ \A s \in Sessions : sess[s].st # "connecting")
    /\ [][cancelled_at # "none" =>
            client' = client
            /\ \A s \in Sessions : sess'[s].st = "connecting" => sess[s].st = "connecting"]_vars

\* C6's case: the shutdown that cancelled a backoff wait is complete.
ShutdownMidBackoffDone == shPc = "done" /\ cancelled_at = "backoff"

\* C7: the last status published for a session that has ended, by release or
\* by a drop, is "offline".
OnlineMatchedByOffline ==
    \A s \in Sessions : sess[s].st \in {"released", "dropped"} => sess[s].status = "offline"

\* What has been handed to session s.
Handed(ss, s) == <<ss[s].status, ss[s].offline_tried>>

\* reconnect() or disconnect() comes to its call of publish_status with a
\* Client while the manager is not connected (disconnect has just cleared the
\* flag itself).
DisconnectedCall ==
    \/ \E r \in Recons : rPc[r] = "ready" /\ rPc'[r] \in {"publish", "aexit"} /\ ~connected
    \/ shPc = "gather" /\ shPc' # "gather" /\ client # NoClient

\* C8: a call of publish while the manager is not connected forwards nothing,
\* waits for nothing, changes no session and makes no task fail, and the call
\* itself leaves the manager's state as it is; and a session is handed a
\* payload only in a step that begins connected on that session, so nothing
\* that was dropped is sent later.
PublishDropsUnlessConnected ==
    /\ [][DisconnectedCall =>
            /\ sess' = sess
            /\ client' = client
            /\ reconnect_requested' = reconnect_requested
            /\ ~connected'
            /\ \A r \in Recons : rPc'[r] # rPc[r] => rPc'[r] = "aexit"
            /\ shPc' # shPc => shPc' = "aexit"
            /\ pPc' = pPc]_vars
    /\ [][\A s \in Sessions :
            sess'[s].st = sess[s].st /\ Handed(sess', s) # Handed(sess, s) =>
                connected /\ client = s]_vars

\* C8's case: reconnect() has called publish_status while the manager was not
\* connected and is at its release of the Client, which was handed nothing.
PublishCalledDisconnected ==
    \E r \in Recons :
        /\ rPc[r] = "aexit" /\ ~connected
        /\ rSess[r] # NoClient /\ ~sess[rSess[r]].offline_tried

\* C9: a publish that fails while connected is swallowed by the manager: no
\* producer task ends with its exception.
PublishFailureSwallowed == \A p \in Producers : pPc[p] # "crashed"

\* C10: a reload of a malformed document leaves every setting as it was and
\* gives an empty Change Record.
MalformedReloadChangesNothing ==
    [][wPc = "sleep" /\ last_mtime' # last_mtime /\ reload_result'.malformed =>
          mqtt' = mqtt /\ app' = app /\ reload_result'.changes = {}]_vars

\* A step in which _reload_config ran: the load of watch_config or a reload of
\* the watch loop.
Reloaded ==
    \/ wPc = "init" /\ wPc' # "init"
    \/ wPc = "sleep" /\ last_mtime' # last_mtime

\* C11: a reload that gives a non-empty Change Record calls every registered
\* listener exactly once, in registration order, in the step that applied the
\* changed fields; a reload that gives an empty Change Record calls none.
ChangeRecordDelivered ==
    [][Reloaded =>
          notified' = IF reload_result'.changes = {} THEN <<>>
                      ELSE [i \in 1..Len(watchers) |-> i]]_vars

\* C12: the step that takes a session from connecting to established hands the
\* online status to it, and every other payload handed to a session (a
\* heartbeat, a measurement, the offline status of a reconnect) is handed to
\* one that has been given its online status before.
OnlineIsFirst ==
    [][/\ \A s \in Sessions :
            sess[s].st = "connecting" /\ sess'[s].st = "live" =>
                connected' /\ client' = s /\ sess'[s].status = "online"
       /\ \A p \in Producers :
            pPc[p] # "publish" /\ pPc'[p] = "publish" =>
                sess[pSess'[p]].status # "none"
       /\ \A r \in Recons :
            rPc[r] # "publish" /\ rPc'[r] = "publish" =>
                sess[rSess'[r]].status # "none"]_vars

\* A producer has handed a payload to the session established last.
ProducerFollowsOnline ==
    \E p \in Producers :
        /\ pPc[p] = "publish" /\ pSess[p] = client
        /\ connected /\ sess[client].st = "live" /\ sess[client].status = "online"

\* C13: every Client the manager has built, whether connecting, established
\* or ended, was given the last-will: the offline status on the status
\* topic, retained, at QoS 1.
WillRegistered ==
    \A s \in Sessions :
        sess[s].st # "unused" =>
            sess[s].will = [topic |-> "status", payload |-> "offline",
                            qos |-> 1, retain |-> TRUE]

\* An established session was dropped and the broker published its will.
WillPublished ==
    \E s \in Sessions : sess[s].st = "dropped" /\ sess[s].status = "offline"

\* C14: however often start is called, at most one supervising loop runs and
\* the manager holds at most one session.
StartIdempotent ==
    /\ Cardinality({l \in Calls : calls[l].pc \notin {"init", "exited"}}) <= 1
    /\ Cardinality({s \in Sessions : Held(s)}) <= 1

\* C15: a call of reconnect made while the manager is Disconnected or
\* Connecting is a no-op: no step of the call changes the connected flag, the
\* reconnect flag or the session handle, and none releases a session.
ReconnectIdleNoOp ==
    [][\A r \in Recons :
          /\ UNCHANGED shPc
          /\ rPc'[r] # rPc[r]
          /\ \/ rPc[r] = "ready" /\ ManagerState # "Connected"
             \/ rPc[r] \in {"publish", "aexit"} /\ rAt[r] # "Connected"
          => /\ UNCHANGED <<connected, reconnect_requested, client>>
             /\ \A s \in Sessions : sess'[s].st = "released" => sess[s].st = "released"]_vars

\* C16: a second call of disconnect changes nothing of the manager (the two
\* flags, the session handle, every session and what was published on
\* it), and it ends as the first did: not running, not connected and with no
\* established session.
DisconnectIdempotent ==
    [][dPc' # dPc =>
          /\ UNCHANGED <<running, connected, reconnect_requested, client>>
          /\ sess' = sess
          /\ dPc' = "done" =>
                ~running' /\ ~connected' /\ \A s \in Sessions : sess'[s].st # "live"]_vars

\* C17: whatever signals and calls of shutdown follow the first, each stage of
\* the shutdown sequence runs at most once (the watch loop is stopped, the
\* tasks are cancelled, the manager is disconnected), and a later signal or
\* call changes nothing of the agent.
ShutdownOnce ==
    [][/\ ran'.stop <= 1 /\ ran'.cancel <= 1 /\ ran'.disconnect <= 1
       /\ signals' # signals \/ shCalls' # shCalls =>
            UNCHANGED <<storeVars, mgrVars, supVars, recVars, prodVars, agentVars>>]_vars

\* The shutdown has completed, a second signal came while it was in progress
\* or after, and shutdown was called again.
ShutdownInvokedAgain ==
    /\ shPc = "done"
    /\ ran = [stop |-> 1, cancel |-> 1, disconnect |-> 1]
    /\ signals >= 1
    /\ shCalls >= 1

\* The fields of the broker's address.
Address == {"host", "port"}

\* C18: a reload of the watch loop starts a reconnect task exactly when its
\* Change Record names the host or the port; a reload whose record names
\* neither leaves the connected flag, the reconnect flag, the session handle,
\* every session and every reconnect task as they were.
ReconnectIffAddressChanged ==
    [][wPc = "sleep" /\ last_mtime' # last_mtime /\ ~reload_result'.raised =>
          /\ rPc' # rPc <=> reload_result'.changes \cap Address # {}
          /\ reload_result'.changes \cap Address = {} =>
                /\ UNCHANGED <<connected, reconnect_requested, client, rPc, rSess, supPc>>
                /\ sess' = sess]_vars

\* A reload changed poll_interval only while the manager was connected, and
\* no reconnect task was started.
PollOnlyReloadWhileConnected ==
    /\ last_mtime >= 1
    /\ reload_result.changes = {"poll_interval"}
    /\ connected /\ client # NoClient /\ sess[client].st = "live"
    /\ \A r \in Recons : rPc[r] = "idle"

\* C19: a reconnect request is not lost: the manager never rests connected
\* (the supervising loop asleep in start, no reconnect task under way, the
\* reconnect flag clear) on a session that was built with another host or port
\* than the settings hold.
ReconnectRequestKept ==
    /\ connected /\ client # NoClient
    /\ supPc = "tick"
    /\ ~reconnect_requested
    /\ \A r \in Recons : rPc[r] = "idle"
    => sess[client].host = mqtt.host /\ sess[client].port = mqtt.port

\* The release of session s has begun or is over, with the sessions ss, the
\* reconnect tasks at rp on rs and shutdown at sp on shs: a reconnect or the
\* disconnect of shutdown awaits __aexit__ on s, or s is released.
TornDown(ss, rp, rs, sp, shs, s) ==
    \/ ss[s].st = "released"
    \/ \E r \in Recons : rp[r] = "aexit" /\ rs[r] = s
    \/ sp = "aexit" /\ shs = s

\* C20: whenever the connected flag is set, the session handle refers to a
\* session that was established and whose release has not begun; and a
\* producer that finds the flag set hands its payload to such a session.
ConnectedMeansSession ==
    [][/\ connected' =>
            /\ client' # NoClient
            /\ sess'[client'].st \in {"live", "dropped"}
            /\ ~TornDown(sess', rPc', rSess', shPc', shSess', client')
       /\ \A p \in Producers :
            pPc[p] # "publish" /\ pPc'[p] = "publish" =>
                connected /\ ~TornDown(sess, rPc, rSess, shPc, shSess, pSess'[p])]_vars

=============================================================================
